---------------------------- MODULE Spec2Model ----------------------------
(***************************************************************************)
(* The four LangChain tools of langgraph-multi-tools/tool.py: WeatherTool, *)
(* WeatherForecastTool, HotelTool and CurrencyConverterTool.  Each tool    *)
(* reads its API key from the environment when it is constructed, and its  *)
(* _run builds a URL, issues one requests.get, reads the JSON body and     *)
(* returns a value or raises RuntimeError.  Text is modelled as sequences  *)
(* of one-character strings, so that URL building, message formatting and  *)
(* the joining of forecast clauses are the concatenations the f-strings    *)
(* perform.                                                                *)
(***************************************************************************)
EXTENDS Integers, Sequences, FiniteSets

VARIABLES
    env,          \* os.environ: variable name -> value (or unset)
    constructed,  \* the tools whose __init__ has returned
    key,          \* self._key of each tool
    call,         \* the latest operation: its kind, tool, arguments, upstream reply
    sent,         \* the URLs of the HTTP GETs the latest operation issued, in order
    cause,        \* what the try block of the latest _run produced, before `except`
    outcome       \* what the latest operation gave its caller: a value or an exception

vars == <<env, constructed, key, call, sent, cause, outcome>>

---------------------------------------------------------------------------
\* Bounds of the model.

\* longest city argument, in characters
MaxCityLen == 2

\* most entries in the "ads" list of a hotel reply
MaxAds == 2

\* largest extracted_price of an entry, and largest budget
MaxPrice == 2

\* most entries in the "forecastday" list of a forecast reply
MaxForecastDays == 2

---------------------------------------------------------------------------
\* URL templates of the four requests.get calls (text up to the first interpolated value)
\* 'https://api.weatherapi.com/v1/current.json?key='
WeatherUrlHead ==
    <<"h", "t", "t", "p", "s", ":", "/", "/", "a", "p", "i", ".", "w", "e",
      "a", "t", "h", "e", "r", "a", "p", "i", ".", "c", "o", "m", "/", "v",
      "1", "/", "c", "u", "r", "r", "e", "n", "t", ".", "j", "s", "o", "n",
      "?", "k", "e", "y", "=">>
\* 'https://api.weatherapi.com/v1/forecast.json?key='
ForecastUrlHead ==
    <<"h", "t", "t", "p", "s", ":", "/", "/", "a", "p", "i", ".", "w", "e",
      "a", "t", "h", "e", "r", "a", "p", "i", ".", "c", "o", "m", "/", "v",
      "1", "/", "f", "o", "r", "e", "c", "a", "s", "t", ".", "j", "s", "o",
      "n", "?", "k", "e", "y", "=">>
\* 'https://serpapi.com/search.json?engine=google_hotels&q='
HotelUrlHead ==
    <<"h", "t", "t", "p", "s", ":", "/", "/", "s", "e", "r", "p", "a", "p",
      "i", ".", "c", "o", "m", "/", "s", "e", "a", "r", "c", "h", ".", "j",
      "s", "o", "n", "?", "e", "n", "g", "i", "n", "e", "=", "g", "o", "o",
      "g", "l", "e", "_", "h", "o", "t", "e", "l", "s", "&", "q", "=">>
\* 'https://api.freecurrencyapi.com/v1/latest?apikey='
CurrencyUrlHead ==
    <<"h", "t", "t", "p", "s", ":", "/", "/", "a", "p", "i", ".", "f", "r",
      "e", "e", "c", "u", "r", "r", "e", "n", "c", "y", "a", "p", "i", ".",
      "c", "o", "m", "/", "v", "1", "/", "l", "a", "t", "e", "s", "t", "?",
      "a", "p", "i", "k", "e", "y", "=">>
\* '&q='
AmpQ ==
    <<"&", "q", "=">>
\* '&aqi=yes'
AmpAqi ==
    <<"&", "a", "q", "i", "=", "y", "e", "s">>
\* '&days='
AmpDays ==
    <<"&", "d", "a", "y", "s", "=">>
\* '&check_in_date='
AmpCheckIn ==
    <<"&", "c", "h", "e", "c", "k", "_", "i", "n", "_", "d", "a", "t", "e",
      "=">>
\* '&check_out_date='
AmpCheckOut ==
    <<"&", "c", "h", "e", "c", "k", "_", "o", "u", "t", "_", "d", "a", "t",
      "e", "=">>
\* '&adults='
AmpAdults ==
    <<"&", "a", "d", "u", "l", "t", "s", "=">>
\* '&currency='
AmpCurrency ==
    <<"&", "c", "u", "r", "r", "e", "n", "c", "y", "=">>
\* '&gl=us&hl=en&api_key='
HotelUrlTail ==
    <<"&", "g", "l", "=", "u", "s", "&", "h", "l", "=", "e", "n", "&", "a",
      "p", "i", "_", "k", "e", "y", "=">>
\* '&currencies='
AmpCurrencies ==
    <<"&", "c", "u", "r", "r", "e", "n", "c", "i", "e", "s", "=">>
\* '&base_currency='
AmpBaseCurrency ==
    <<"&", "b", "a", "s", "e", "_", "c", "u", "r", "r", "e", "n", "c", "y",
      "=">>

\* Message templates
\* 'Failed to fetch weather for '
WeatherMsgHead ==
    <<"F", "a", "i", "l", "e", "d", " ", "t", "o", " ", "f", "e", "t", "c",
      "h", " ", "w", "e", "a", "t", "h", "e", "r", " ", "f", "o", "r", " ">>
\* 'Failed to fetch forecast for '
ForecastMsgHead ==
    <<"F", "a", "i", "l", "e", "d", " ", "t", "o", " ", "f", "e", "t", "c",
      "h", " ", "f", "o", "r", "e", "c", "a", "s", "t", " ", "f", "o", "r",
      " ">>
\* 'Failed to fetch hotels for '
HotelMsgHead ==
    <<"F", "a", "i", "l", "e", "d", " ", "t", "o", " ", "f", "e", "t", "c",
      "h", " ", "h", "o", "t", "e", "l", "s", " ", "f", "o", "r", " ">>
\* 'Unable to fetch currency conversion rate: '
CurrencyMsgHead ==
    <<"U", "n", "a", "b", "l", "e", " ", "t", "o", " ", "f", "e", "t", "c",
      "h", " ", "c", "u", "r", "r", "e", "n", "c", "y", " ", "c", "o", "n",
      "v", "e", "r", "s", "i", "o", "n", " ", "r", "a", "t", "e", ":", " ">>
\* ': '
ColonSpace ==
    <<":", " ">>
\* 'Async not supported.'
AsyncMsg ==
    <<"A", "s", "y", "n", "c", " ", "n", "o", "t", " ", "s", "u", "p", "p",
      "o", "r", "t", "e", "d", ".">>
\* ' environment variable is not set.'
NotSetTail ==
    <<" ", "e", "n", "v", "i", "r", "o", "n", "m", "e", "n", "t", " ", "v",
      "a", "r", "i", "a", "b", "l", "e", " ", "i", "s", " ", "n", "o", "t",
      " ", "s", "e", "t", ".">>
\* 'WEATHER_API_KEY'
WeatherKeyName ==
    <<"W", "E", "A", "T", "H", "E", "R", "_", "A", "P", "I", "_", "K", "E",
      "Y">>
\* 'SERP_API_KEY'
SerpKeyName ==
    <<"S", "E", "R", "P", "_", "A", "P", "I", "_", "K", "E", "Y">>
\* 'CURRENCY_API_KEY'
CurrencyKeyName ==
    <<"C", "U", "R", "R", "E", "N", "C", "Y", "_", "A", "P", "I", "_", "K",
      "E", "Y">>
\* 'The current weather in '
SentenceHead ==
    <<"T", "h", "e", " ", "c", "u", "r", "r", "e", "n", "t", " ", "w", "e",
      "a", "t", "h", "e", "r", " ", "i", "n", " ">>
\* ' is '
SentenceIs ==
    <<" ", "i", "s", " ">>
\* '°C with '
SentenceWith ==
    <<"°", "C", " ", "w", "i", "t", "h", " ">>
\* '.'
FullStop ==
    <<".">>
\* 'On: '
ClauseOn ==
    <<"O", "n", ":", " ">>
\* ', max temp: '
ClauseMax ==
    <<",", " ", "m", "a", "x", " ", "t", "e", "m", "p", ":", " ">>
\* '°C, min temp: '
ClauseMin ==
    <<"°", "C", ",", " ", "m", "i", "n", " ", "t", "e", "m", "p", ":", " ">>
\* '°C, condition: '
ClauseCond ==
    <<"°", "C", ",", " ", "c", "o", "n", "d", "i", "t", "i", "o", "n", ":",
      " ">>
\* '. '
JoinSep ==
    <<".", " ">>
\* 'None'
NoneText ==
    <<"N", "o", "n", "e">>

\* str(e) of the exceptions the try blocks can raise
\* 'Expecting value: line 1 column 1 (char 0)'
JsonErrText ==
    <<"E", "x", "p", "e", "c", "t", "i", "n", "g", " ", "v", "a", "l", "u",
      "e", ":", " ", "l", "i", "n", "e", " ", "1", " ", "c", "o", "l", "u",
      "m", "n", " ", "1", " ", "(", "c", "h", "a", "r", " ", "0", ")">>
\* 'list indices must be integers or slices, not str'
TypeErrText ==
    <<"l", "i", "s", "t", " ", "i", "n", "d", "i", "c", "e", "s", " ", "m",
      "u", "s", "t", " ", "b", "e", " ", "i", "n", "t", "e", "g", "e", "r",
      "s", " ", "o", "r", " ", "s", "l", "i", "c", "e", "s", ",", " ", "n",
      "o", "t", " ", "s", "t", "r">>
\* 'Connection refused'
NetErrText ==
    <<"C", "o", "n", "n", "e", "c", "t", "i", "o", "n", " ", "r", "e", "f",
      "u", "s", "e", "d">>

---------------------------------------------------------------------------
\* Text helpers.

SeqsUpTo(S, n) == UNION {[1..k -> S] : k \in 0..n}

Min(S) == CHOOSE x \in S : \A y \in S : x <= y

Positions(s, c) == {i \in 1..Len(s) : s[i] = c}

\* the text of s before the first c, the whole of s when it holds no c
Before(s, c) ==
    IF Positions(s, c) = {} THEN s ELSE SubSeq(s, 1, Min(Positions(s, c)) - 1)

\* the text of s after the first c, empty when it holds no c
After(s, c) ==
    IF Positions(s, c) = {} THEN <<>>
    ELSE SubSeq(s, Min(Positions(s, c)) + 1, Len(s))

Digit(d) ==
    CASE d = 0 -> "0" [] d = 1 -> "1" [] d = 2 -> "2" [] d = 3 -> "3"
      [] d = 4 -> "4" [] d = 5 -> "5" [] d = 6 -> "6" [] d = 7 -> "7"
      [] d = 8 -> "8" [] d = 9 -> "9"

RECURSIVE NatStr(_)
NatStr(n) == IF n < 10 THEN <<Digit(n)>> ELSE NatStr(n \div 10) \o <<Digit(n % 10)>>

\* str(n) of a Python int, as the f-strings format it
IntStr(n) == IF n < 0 THEN <<"-">> \o NatStr(-n) ELSE NatStr(n)

\* repr of a str key, which is str(KeyError(key))
Quoted(s) == <<"'">> \o s \o <<"'">>

\* a join that ends every part, the last too, with the separator
RECURSIVE JoinTrailing(_, _)
JoinTrailing(sep, parts) ==
    IF parts = <<>> THEN <<>>
    ELSE parts[1] \o sep \o JoinTrailing(sep, Tail(parts))

\* sep.join(parts)
RECURSIVE Join(_, _)
Join(sep, parts) ==
    IF parts = <<>> THEN <<>>
    ELSE IF Len(parts) = 1 THEN parts[1]
    ELSE parts[1] \o sep \o Join(sep, Tail(parts))

---------------------------------------------------------------------------
\* The tools and their credentials.

Tools == {"WeatherTool", "WeatherForecastTool", "HotelTool", "CurrencyConverterTool"}

EnvVars == {"WEATHER_API_KEY", "SERP_API_KEY", "CURRENCY_API_KEY"}

\* the variable each __init__ reads
EnvVar(t) ==
    CASE t = "WeatherTool" -> "WEATHER_API_KEY"
      [] t = "WeatherForecastTool" -> "WEATHER_API_KEY"
      [] t = "HotelTool" -> "SERP_API_KEY"
      [] t = "CurrencyConverterTool" -> "CURRENCY_API_KEY"

EnvVarText(v) ==
    CASE v = "WEATHER_API_KEY" -> WeatherKeyName
      [] v = "SERP_API_KEY" -> SerpKeyName
      [] v = "CURRENCY_API_KEY" -> CurrencyKeyName

\* a value of os.getenv: None when the variable is unset, else its text
None == [set |-> FALSE, text |-> <<>>]
Str(s) == [set |-> TRUE, text |-> s]

ApiKey == <<"K">>

EnvValues == {None, Str(<<>>), Str(ApiKey)}

\* os.getenv(name)
Getenv(name) == env[name]

\* Python truth of an Optional[str]: None and "" are false
Truthy(v) == v.set /\ v.text # <<>>

\* `not self._key`, the test of each __init__
KeyMissing(v) == ~Truthy(v)

\* {self._key} inside an f-string
Format(v) == IF v.set THEN v.text ELSE NoneText

\* the key read from the environment at the time of the call
EnvKey(t) == Getenv(EnvVar(t))

\* self._key, as _run reads it
StoredKey(t) == key[t]

---------------------------------------------------------------------------
\* Results.

Return(v) == [kind |-> "return", value |-> v]
Raise(exc, msg) == [kind |-> "raise", exc |-> exc, msg |-> msg]

\* what a try block produced: a value, or an exception with its str(e)
Ok(v) == [ok |-> TRUE, value |-> v]
Err(exc, text) == [ok |-> FALSE, exc |-> exc, text |-> text]

NoCause == [ok |-> TRUE, value |-> <<>>]
NoCall == [op |-> "none"]
NoOutcome == [kind |-> "none"]

\* an except clause that catches KeyError alone
CaughtKeyErrorOnly(exc) == exc = "KeyError"

\* `except Exception`: every exception a try block raises here (ConnectionError,
\* JSONDecodeError, KeyError, TypeError) is a subclass of Exception
Caught(exc) == TRUE

\* the except clause of WeatherTool, WeatherForecastTool and HotelTool
ExceptCity(head, city, r) ==
    IF r.ok THEN Return(r.value)
    ELSE IF Caught(r.exc)
         THEN Raise("RuntimeError", head \o city \o ColonSpace \o r.text)
         ELSE Raise(r.exc, r.text)

\* the except clause of CurrencyConverterTool
ExceptPlain(head, r) ==
    IF r.ok THEN Return(r.value)
    ELSE IF Caught(r.exc)
         THEN Raise("RuntimeError", head \o r.text)
         ELSE Raise(r.exc, r.text)

---------------------------------------------------------------------------
\* Upstream replies.  requests.get either raises (no reply) or gives a reply
\* with a status and a body; .json() raises on a body that is not JSON and
\* does not look at the status.

NetErr == [kind |-> "neterr", text |-> NetErrText]
Reply(status, body) == [kind |-> "reply", status |-> status, body |-> body]

NotJson == [kind |-> "text"]
JsonArray == [kind |-> "array"]
JsonObject(o) == [kind |-> "object", val |-> o]

Statuses == {200, 500}

\* requests.get(url).json(): the parsed body, or the exception raised
GetJson(resp) ==
    IF resp.kind = "neterr" THEN Err("ConnectionError", resp.text)
    ELSE IF resp.body.kind = "text" THEN Err("JSONDecodeError", JsonErrText)
    ELSE Ok(resp.body)

\* a GET that is issued again when the connection fails
RequestsRetried(url, resp) == IF resp.kind = "neterr" THEN <<url, url>> ELSE <<url>>

\* the HTTP GETs one requests.get(url) issues
Requests(url, resp) == <<url>>

\* city.split(',')[0]
SplitCity(city) == Before(city, ",")

---------------------------------------------------------------------------
\* WeatherTool._run

WeatherUrl(k, city) == WeatherUrlHead \o Format(k) \o AmpQ \o city \o AmpAqi

\* the f-string of the return statement: response['current']['temp_c'] is
\* read first, then response['current']['condition']['text']
WeatherSentence(city, body) ==
    IF body.kind = "array" THEN Err("TypeError", TypeErrText)
    ELSE IF "current" \notin DOMAIN body.val
    THEN Err("KeyError", Quoted(<<"c", "u", "r", "r", "e", "n", "t">>))
    ELSE IF "temp_c" \notin DOMAIN body.val.current
    THEN Err("KeyError", Quoted(<<"t", "e", "m", "p", "_", "c">>))
    ELSE IF "condition" \notin DOMAIN body.val.current
    THEN Err("KeyError", Quoted(<<"c", "o", "n", "d", "i", "t", "i", "o", "n">>))
    ELSE IF "text" \notin DOMAIN body.val.current.condition
    THEN Err("KeyError", Quoted(<<"t", "e", "x", "t">>))
    ELSE Ok(SentenceHead \o city \o SentenceIs
            \o IntStr(body.val.current.temp_c) \o SentenceWith
            \o body.val.current.condition.text \o FullStop)

\* the try block: the city after the split, the URL requested, the result
WeatherTry(k, city0, resp) ==
    LET city == SplitCity(city0)
        got == GetJson(resp)
    IN [city |-> city,
        url |-> WeatherUrl(k, city),
        res |-> IF got.ok THEN WeatherSentence(city, got.value) ELSE got]

---------------------------------------------------------------------------
\* WeatherForecastTool._run

ForecastUrl(k, city, days) ==
    ForecastUrlHead \o Format(k) \o AmpQ \o city \o AmpDays \o IntStr(days) \o AmpAqi

\* the key whose lookup fails while formatting one entry, <<>> when none does
ClauseMissing(fc) ==
    IF "date" \notin DOMAIN fc THEN <<"d", "a", "t", "e">>
    ELSE IF "day" \notin DOMAIN fc THEN <<"d", "a", "y">>
    ELSE IF "maxtemp_c" \notin DOMAIN fc.day
    THEN <<"m", "a", "x", "t", "e", "m", "p", "_", "c">>
    ELSE IF "mintemp_c" \notin DOMAIN fc.day
    THEN <<"m", "i", "n", "t", "e", "m", "p", "_", "c">>
    ELSE IF "condition" \notin DOMAIN fc.day
    THEN <<"c", "o", "n", "d", "i", "t", "i", "o", "n">>
    ELSE IF "text" \notin DOMAIN fc.day.condition THEN <<"t", "e", "x", "t">>
    ELSE <<>>

\* the f-string appended to res for one entry
Clause(fc) ==
    ClauseOn \o fc.date \o ClauseMax \o IntStr(fc.day.maxtemp_c) \o ClauseMin
    \o IntStr(fc.day.mintemp_c) \o ClauseCond \o fc.day.condition.text

\* the loop over forecast and the join; the loop stops at the first entry
\* whose formatting raises
ForecastText(forecast) ==
    LET bad == {i \in 1..Len(forecast) : ClauseMissing(forecast[i]) # <<>>}
    IN IF bad # {} THEN Err("KeyError", Quoted(ClauseMissing(forecast[Min(bad)])))
       ELSE Ok(Join(JoinSep, [i \in 1..Len(forecast) |-> Clause(forecast[i])]))

ForecastResult(body) ==
    IF body.kind = "array" THEN Err("TypeError", TypeErrText)
    ELSE IF "forecast" \notin DOMAIN body.val
    THEN Err("KeyError", Quoted(<<"f", "o", "r", "e", "c", "a", "s", "t">>))
    ELSE IF "forecastday" \notin DOMAIN body.val.forecast
    THEN Err("KeyError",
             Quoted(<<"f", "o", "r", "e", "c", "a", "s", "t", "d", "a", "y">>))
    ELSE ForecastText(body.val.forecast.forecastday)

ForecastTry(k, city0, days, resp) ==
    LET city == SplitCity(city0)
        got == GetJson(resp)
    IN [city |-> city,
        url |-> ForecastUrl(k, city, days),
        res |-> IF got.ok THEN ForecastResult(got.value) ELSE got]

---------------------------------------------------------------------------
\* HotelTool._run

HotelUrl(k, city, check_in, check_out, num_of_adults, currency) ==
    HotelUrlHead \o city \o AmpCheckIn \o check_in \o AmpCheckOut \o check_out
    \o AmpAdults \o IntStr(num_of_adults) \o AmpCurrency \o currency
    \o HotelUrlTail \o Format(k)

\* a test that filters whatever the budget is
BudgetAlwaysGiven(budget) == TRUE

\* `if budget:` -- Python truth of an int
BudgetGiven(budget) == budget # 0

\* a comparison that leaves out the entry at the budget
WithinBudgetStrict(hotel, budget) == hotel.extracted_price < budget

\* hotel['extracted_price'] <= budget
WithinBudget(hotel, budget) == hotel.extracted_price <= budget

\* the filtering loop; hotel['extracted_price'] raises KeyError on the first
\* entry that has no such key
FilterHotels(hotels, budget) ==
    IF \E i \in 1..Len(hotels) : "extracted_price" \notin DOMAIN hotels[i]
    THEN Err("KeyError",
             Quoted(<<"e", "x", "t", "r", "a", "c", "t", "e", "d", "_",
                      "p", "r", "i", "c", "e">>))
    ELSE LET Keep(h) == WithinBudget(h, budget) IN Ok(SelectSeq(hotels, Keep))

HotelResult(body, budget) ==
    IF body.kind = "array" THEN Err("TypeError", TypeErrText)
    ELSE IF "ads" \notin DOMAIN body.val
    THEN Err("KeyError", Quoted(<<"a", "d", "s">>))
    ELSE LET hotels == body.val.ads
         IN IF hotels = <<>> THEN Ok(<<>>)
            ELSE IF BudgetGiven(budget) THEN FilterHotels(hotels, budget)
            ELSE Ok(hotels)

HotelTry(k, a, resp) ==
    LET city == SplitCity(a.city)
        got == GetJson(resp)
    IN [city |-> city,
        url |-> HotelUrl(k, city, a.check_in, a.check_out, a.num_of_adults,
                         a.currency),
        res |-> IF got.ok THEN HotelResult(got.value, a.budget) ELSE got]

---------------------------------------------------------------------------
\* CurrencyConverterTool._run

CurrencyUrl(k, base_currency, currency) ==
    CurrencyUrlHead \o Format(k) \o AmpCurrencies \o currency
    \o AmpBaseCurrency \o base_currency

\* response['data'][currency]
CurrencyResult(body, currency) ==
    IF body.kind = "array" THEN Err("TypeError", TypeErrText)
    ELSE IF "data" \notin DOMAIN body.val
    THEN Err("KeyError", Quoted(<<"d", "a", "t", "a">>))
    ELSE IF currency \notin DOMAIN body.val.data
    THEN Err("KeyError", Quoted(currency))
    ELSE Ok(body.val.data[currency])

CurrencyTry(k, base_currency, currency, resp) ==
    LET got == GetJson(resp)
    IN [url |-> CurrencyUrl(k, base_currency, currency),
        res |-> IF got.ok THEN CurrencyResult(got.value, currency) ELSE got]

---------------------------------------------------------------------------
\* Arguments and upstream replies the operations are tried on.

CityChars == {"a", ",", "&"}
Cities == SeqsUpTo(CityChars, MaxCityLen)
PlainCities == {<<"a">>}

ErrorBody == JsonObject([error |-> [code |-> 1006]])

Sunny == <<"S", "u", "n", "n", "y">>
Rain == <<"R", "a", "i", "n">>

WeatherGood == JsonObject([current |-> [temp_c |-> 18, condition |-> [text |-> Sunny]]])
WeatherBodies ==
    {NotJson, JsonArray, ErrorBody, WeatherGood,
     JsonObject([current |-> [temp_c |-> -3, condition |-> [text |-> Rain]]]),
     JsonObject([current |-> [condition |-> [text |-> Sunny]]]),
     JsonObject([current |-> [temp_c |-> 18]]),
     JsonObject([current |-> [temp_c |-> 18, condition |-> [code |-> 1000]]])}

\* every reply with status 200, the plain ones with the other statuses too
Replies(bodies, plain) ==
    {NetErr} \cup {Reply(200, b) : b \in bodies}
    \cup {Reply(s, b) : s \in Statuses, b \in plain}

WeatherInputs ==
    {[city |-> c, resp |-> r] : c \in Cities, r \in {NetErr, Reply(200, WeatherGood)}}
    \cup {[city |-> c, resp |-> r] :
            c \in PlainCities, r \in Replies(WeatherBodies, {NotJson, ErrorBody, WeatherGood})}

Day1 == <<"2", "0", "2", "5", "-", "0", "1", "-", "0", "1">>
Day2 == <<"2", "0", "2", "5", "-", "0", "1", "-", "0", "2">>

ForecastEntries ==
    {[date |-> Day1, day |-> [maxtemp_c |-> 18, mintemp_c |-> 7, condition |-> [text |-> Sunny]]],
     [date |-> Day2, day |-> [maxtemp_c |-> 4, mintemp_c |-> -3, condition |-> [text |-> Rain]]],
     [date |-> Day2, day |-> [maxtemp_c |-> 4, condition |-> [text |-> Rain]]]}

ForecastBody(list) == JsonObject([forecast |-> [forecastday |-> list]])
ForecastGood == ForecastBody(<<CHOOSE fc \in ForecastEntries : fc.date = Day1>>)
ForecastBodies ==
    {NotJson, JsonArray, ErrorBody, JsonObject([forecast |-> [other |-> 1]])}
    \cup {ForecastBody(l) : l \in SeqsUpTo(ForecastEntries, MaxForecastDays)}

ForecastInputs ==
    {[city |-> c, days |-> 1, resp |-> r] : c \in Cities, r \in {NetErr, Reply(200, ForecastGood)}}
    \cup {[city |-> c, days |-> d, resp |-> r] :
            c \in PlainCities, d \in {1, 14},
            r \in Replies(ForecastBodies, {NotJson, ErrorBody, ForecastGood})}

Usd == <<"U", "S", "D">>
Eur == <<"E", "U", "R">>

HotelName == <<"I", "n", "n">>
HotelEntries ==
    {[name |-> HotelName, extracted_price |-> p] : p \in 1..MaxPrice}
    \cup {[name |-> HotelName]}

HotelBody(list) == JsonObject([ads |-> list])
HotelGood == HotelBody(<<[name |-> HotelName, extracted_price |-> 1]>>)
HotelBodies ==
    {NotJson, JsonArray, ErrorBody}
    \cup {HotelBody(l) : l \in SeqsUpTo(HotelEntries, MaxAds)}

HotelArgs(c, b) ==
    [city |-> c, check_in |-> Day1, check_out |-> Day2, num_of_adults |-> 2,
     currency |-> Usd, budget |-> b]

HotelInputs ==
    {[args |-> HotelArgs(c, 0), resp |-> r] :
        c \in Cities, r \in {NetErr, Reply(200, HotelGood)}}
    \cup {[args |-> HotelArgs(c, b), resp |-> r] :
            c \in PlainCities, b \in 0..MaxPrice,
            r \in Replies(HotelBodies, {NotJson, ErrorBody, HotelGood, HotelBody(<<>>)})}

CurrencyGood == JsonObject([data |-> [c \in {Usd} |-> 83]])
CurrencyBodies ==
    {NotJson, JsonArray, ErrorBody, CurrencyGood,
     JsonObject([data |-> [c \in {Eur} |-> 91]])}

CurrencyInputs ==
    {[base_currency |-> b, currency |-> c, resp |-> r] :
        b \in {Usd, Eur}, c \in {Usd, Eur},
        r \in Replies(CurrencyBodies, {NotJson, ErrorBody, CurrencyGood})}

\* the few calls tried while the environment and the tools change
WeatherFew ==
    {[city |-> c, resp |-> r] : c \in PlainCities, r \in {NetErr, Reply(200, WeatherGood)}}
ForecastFew ==
    {[city |-> c, days |-> 1, resp |-> r] :
        c \in PlainCities, r \in {NetErr, Reply(200, ForecastGood)}}
HotelFew ==
    {[args |-> HotelArgs(c, 0), resp |-> r] :
        c \in PlainCities, r \in {NetErr, Reply(200, HotelGood)}}
CurrencyFew ==
    {[base_currency |-> Eur, currency |-> Usd, resp |-> r] :
        r \in {NetErr, Reply(200, CurrencyGood)}}

\* positional arguments handed to _arun
ArunArgs == {<<>>, <<"a">>}

---------------------------------------------------------------------------
\* Operations.

\* os.environ[v] = x, or del os.environ[v]
SetEnv ==
    \E v \in EnvVars, x \in EnvValues :
        /\ env[v] # x
        /\ env' = [env EXCEPT ![v] = x]
        /\ UNCHANGED <<constructed, key, call, sent, cause, outcome>>

\* the body of each __init__ after super().__init__: the key it stores and
\* whether it raises
InitTool(t) ==
    LET k == Getenv(EnvVar(t))
    IN [key |-> k,
        outcome |-> IF KeyMissing(k)
                    THEN Raise("ValueError", EnvVarText(EnvVar(t)) \o NotSetTail)
                    ELSE Return(t)]

\* t = Tool(): the caller holds the tool only when __init__ returned
Construct ==
    \E t \in Tools \ constructed :
        LET r == InitTool(t)
        IN /\ call' = [op |-> "__init__", tool |-> t]
           /\ outcome' = r.outcome
           /\ constructed' = IF r.outcome.kind = "return"
                             THEN constructed \cup {t} ELSE constructed
           /\ key' = IF r.outcome.kind = "return"
                     THEN [key EXCEPT ![t] = r.key] ELSE key
           /\ sent' = <<>>
           /\ cause' = NoCause
           /\ UNCHANGED env

WeatherRun(inputs) ==
    /\ "WeatherTool" \in constructed
    /\ \E in \in inputs :
        LET t == WeatherTry(StoredKey("WeatherTool"), in.city, in.resp)
        IN /\ call' = [op |-> "_run", tool |-> "WeatherTool",
                       args |-> [city |-> in.city], resp |-> in.resp]
           /\ sent' = Requests(t.url, in.resp)
           /\ cause' = t.res
           /\ outcome' = ExceptCity(WeatherMsgHead, t.city, t.res)
    /\ UNCHANGED <<env, constructed, key>>

ForecastRun(inputs) ==
    /\ "WeatherForecastTool" \in constructed
    /\ \E in \in inputs :
        LET t == ForecastTry(StoredKey("WeatherForecastTool"), in.city, in.days, in.resp)
        IN /\ call' = [op |-> "_run", tool |-> "WeatherForecastTool",
                       args |-> [city |-> in.city, days |-> in.days],
                       resp |-> in.resp]
           /\ sent' = Requests(t.url, in.resp)
           /\ cause' = t.res
           /\ outcome' = ExceptCity(ForecastMsgHead, t.city, t.res)
    /\ UNCHANGED <<env, constructed, key>>

HotelRun(inputs) ==
    /\ "HotelTool" \in constructed
    /\ \E in \in inputs :
        LET t == HotelTry(StoredKey("HotelTool"), in.args, in.resp)
        IN /\ call' = [op |-> "_run", tool |-> "HotelTool",
                       args |-> in.args, resp |-> in.resp]
           /\ sent' = Requests(t.url, in.resp)
           /\ cause' = t.res
           /\ outcome' = ExceptCity(HotelMsgHead, t.city, t.res)
    /\ UNCHANGED <<env, constructed, key>>

CurrencyRun(inputs) ==
    /\ "CurrencyConverterTool" \in constructed
    /\ \E in \in inputs :
        LET t == CurrencyTry(StoredKey("CurrencyConverterTool"),
                             in.base_currency, in.currency, in.resp)
        IN /\ call' = [op |-> "_run", tool |-> "CurrencyConverterTool",
                       args |-> [base_currency |-> in.base_currency,
                                 currency |-> in.currency],
                       resp |-> in.resp]
           /\ sent' = Requests(t.url, in.resp)
           /\ cause' = t.res
           /\ outcome' = ExceptPlain(CurrencyMsgHead, t.res)
    /\ UNCHANGED <<env, constructed, key>>

\* an _arun that requests the tool's URL
ArunCallsRun(t, args) ==
    [sent |-> <<WeatherUrl(StoredKey(t), <<>>)>>, outcome |-> Return(<<>>)]

\* the body of each _arun: the GETs it issues and what it gives its caller
ArunResult(t, args) ==
    [sent |-> <<>>, outcome |-> Raise("NotImplementedError", AsyncMsg)]

Arun ==
    \E t \in constructed, a \in ArunArgs :
        /\ call' = [op |-> "_arun", tool |-> t, args |-> a]
        /\ sent' = ArunResult(t, a).sent
        /\ outcome' = ArunResult(t, a).outcome
        /\ cause' = NoCause
        /\ UNCHANGED <<env, constructed, key>>

---------------------------------------------------------------------------
\* Specifications.

\* Every tool constructed with its key in the environment; the calls range
\* over all the arguments and replies above.
Init ==
    /\ env = [v \in EnvVars |-> Str(ApiKey)]
    /\ constructed = Tools
    /\ key = [t \in Tools |-> Str(ApiKey)]
    /\ call = NoCall
    /\ sent = <<>>
    /\ cause = NoCause
    /\ outcome = NoOutcome

Next ==
    \/ WeatherRun(WeatherInputs)
    \/ ForecastRun(ForecastInputs)
    \/ HotelRun(HotelInputs)
    \/ CurrencyRun(CurrencyInputs)
    \/ Arun

Spec == Init /\ [][Next]_vars

\* A fresh process: nothing in the environment, no tool constructed; the
\* environment changes at any time, tools are constructed and called.
LifeInit ==
    /\ env = [v \in EnvVars |-> None]
    /\ constructed = {}
    /\ key = [t \in Tools |-> None]
    /\ call = NoCall
    /\ sent = <<>>
    /\ cause = NoCause
    /\ outcome = NoOutcome

LifeNext ==
    \/ SetEnv
    \/ Construct
    \/ WeatherRun(WeatherFew)
    \/ ForecastRun(ForecastFew)
    \/ HotelRun(HotelFew)
    \/ CurrencyRun(CurrencyFew)
    \/ Arun

LifeSpec == LifeInit /\ [][LifeNext]_vars

---------------------------------------------------------------------------
\* Reading a request and a result back, for the properties below.

\* the pieces of s between occurrences of c
RECURSIVE Pieces(_, _)
Pieces(s, c) ==
    IF Positions(s, c) = {} THEN <<s>>
    ELSE <<Before(s, c)>> \o Pieces(After(s, c), c)

\* the query string of a URL: after the first "?", up to a "#"
Query(url) == Before(After(url, "?"), "#")

\* the value the query string gives parameter `name` (its first occurrence)
QueryParam(url, name) ==
    LET ps == Pieces(Query(url), "&")
        hit == {i \in 1..Len(ps) : Before(ps[i], "=") = name}
    IN IF hit = {} THEN [present |-> FALSE, value |-> <<>>]
       ELSE [present |-> TRUE, value |-> After(ps[Min(hit)], "=")]

\* q is the text of city before its first comma (all of city when it has none)
IsBeforeFirstComma(q, city) ==
    /\ Len(q) <= Len(city)
    /\ SubSeq(city, 1, Len(q)) = q
    /\ \A i \in 1..Len(q) : q[i] # ","
    /\ Len(q) < Len(city) => city[Len(q) + 1] = ","

\* piece occurs in s right after the first off characters
OccursAt(s, off, piece) ==
    /\ off + Len(piece) <= Len(s)
    /\ SubSeq(s, off + 1, off + Len(piece)) = piece

EndsWith(s, piece) == Len(piece) <= Len(s) /\ OccursAt(s, Len(s) - Len(piece), piece)

IsRun(t) == call.op = "_run" /\ call.tool = t

CityTools == {"WeatherTool", "WeatherForecastTool", "HotelTool"}

MsgHead(t) ==
    CASE t = "WeatherTool" -> WeatherMsgHead
      [] t = "WeatherForecastTool" -> ForecastMsgHead
      [] t = "HotelTool" -> HotelMsgHead
      [] t = "CurrencyConverterTool" -> CurrencyMsgHead

\* the reply of the latest call is a JSON object
GotObject == call.resp.kind = "reply" /\ call.resp.body.kind = "object"

\* the reply of the latest HotelTool call carries an "ads" list
GotAds == GotObject /\ "ads" \in DOMAIN call.resp.body.val

Ads == call.resp.body.val.ads

---------------------------------------------------------------------------
\* C1: HotelTool._run returns an empty sequence, and does not raise, whenever
\* the reply has no "ads" field or an empty "ads" list, for every budget.
\* (Stated for replies with status 200.)
C1_NoAdsReturnsEmpty ==
    (IsRun("HotelTool") /\ GotObject /\ call.resp.status = 200
     /\ ("ads" \notin DOMAIN call.resp.body.val \/ Ads = <<>>))
        => outcome = Return(<<>>)

\* C2: whatever the try block of a _run raises reaches the caller as a
\* RuntimeError, never as the exception itself; its message ends with the
\* text of that exception and, for the three tools that take a city, holds
\* the city as it was queried right after the tool's message head.
C2_FailuresAreWrapped ==
    (call.op = "_run" /\ ~cause.ok) =>
        /\ outcome.kind = "raise"
        /\ outcome.exc = "RuntimeError"
        /\ outcome.exc # cause.exc
        /\ OccursAt(outcome.msg, 0, MsgHead(call.tool))
        /\ EndsWith(outcome.msg, cause.text)
        /\ call.tool \in CityTools =>
             \E q \in Cities :
                /\ IsBeforeFirstComma(q, call.args.city)
                /\ OccursAt(outcome.msg, Len(MsgHead(call.tool)), q \o ColonSpace)

\* a connection failure of WeatherTool for a city that had a comma, wrapped
C2_Witness ==
    /\ IsRun("WeatherTool")
    /\ Positions(call.args.city, ",") # {}
    /\ ~cause.ok
    /\ cause.exc = "ConnectionError"
    /\ outcome.kind = "raise"
    /\ outcome.exc = "RuntimeError"

\* C3: a reply whose status is not 2xx always ends the call in a raised
\* failure, whatever its body.
C3_Non2xxFails ==
    (call.op = "_run" /\ call.resp.kind = "reply"
     /\ call.resp.status \notin 200..299)
        => outcome.kind = "raise"

\* the i-th smallest member of a set of numbers
Nth(S, i) == CHOOSE x \in S : Cardinality({y \in S : y <= x}) = i

\* C4: with a budget B > 0 and a non-empty "ads" list whose entries carry
\* extracted_price, HotelTool._run returns exactly the entries with
\* extracted_price <= B, in their order in the list.
C4_BudgetFilter ==
    (IsRun("HotelTool") /\ GotAds /\ call.args.budget > 0 /\ Ads # <<>>
     /\ \A i \in 1..Len(Ads) : "extracted_price" \in DOMAIN Ads[i])
        => LET kept == {i \in 1..Len(Ads) :
                          Ads[i].extracted_price <= call.args.budget}
           IN /\ outcome.kind = "return"
              /\ Len(outcome.value) = Cardinality(kept)
              /\ \A j \in 1..Len(outcome.value) :
                    outcome.value[j] = Ads[Nth(kept, j)]

\* a list holding an entry at the budget and a dearer one, the first kept
\* and the second dropped
C4_Witness ==
    /\ IsRun("HotelTool") /\ GotAds
    /\ call.args.budget = 1
    /\ Len(Ads) = 2
    /\ \A i \in 1..2 : "extracted_price" \in DOMAIN Ads[i]
    /\ Ads[1].extracted_price = 2 /\ Ads[2].extracted_price = 1
    /\ outcome = Return(<<Ads[2]>>)

\* C5: with budget 0 HotelTool._run returns the whole "ads" list of the
\* reply, in order, whatever the prices of its entries.
C5_NoBudgetReturnsAll ==
    (IsRun("HotelTool") /\ GotAds /\ call.args.budget = 0)
        => outcome = Return(Ads)

C5_Witness ==
    /\ IsRun("HotelTool") /\ GotAds
    /\ call.args.budget = 0
    /\ Len(Ads) = 2
    /\ "extracted_price" \in DOMAIN Ads[1] /\ Ads[1].extracted_price = MaxPrice
    /\ "extracted_price" \notin DOMAIN Ads[2]
    /\ outcome = Return(Ads)

\* C6: for every city that holds a comma, the q parameter of the request of
\* WeatherTool, WeatherForecastTool and HotelTool is exactly the text of city
\* before its first comma.
C6_QueryIsCityBeforeComma ==
    (call.op = "_run" /\ call.tool \in CityTools
     /\ Positions(call.args.city, ",") # {}) =>
        /\ Len(sent) = 1
        /\ QueryParam(sent[1], <<"q">>).present
        /\ IsBeforeFirstComma(QueryParam(sent[1], <<"q">>).value, call.args.city)

\* the "forecastday" list of the reply of the latest WeatherForecastTool call
GotForecast ==
    /\ GotObject
    /\ "forecast" \in DOMAIN call.resp.body.val
    /\ "forecastday" \in DOMAIN call.resp.body.val.forecast

Forecast == call.resp.body.val.forecast.forecastday

\* the clause of one entry: "On: <date>, max temp: <C>°C, min temp: <C>°C,
\* condition: <text>"
ClausePattern(date, mx, mn, text) ==
    <<"O", "n", ":", " ">> \o date
    \o <<",", " ", "m", "a", "x", " ", "t", "e", "m", "p", ":", " ">> \o IntStr(mx)
    \o <<"°", "C", ",", " ", "m", "i", "n", " ", "t", "e", "m", "p", ":", " ">>
    \o IntStr(mn)
    \o <<"°", "C", ",", " ", "c", "o", "n", "d", "i", "t", "i", "o", "n", ":", " ">>
    \o text

ClauseOf(fc) ==
    ClausePattern(fc.date, fc.day.maxtemp_c, fc.day.mintemp_c, fc.day.condition.text)

\* where the i-th clause starts in the joined text
RECURSIVE ClauseOffset(_, _)
ClauseOffset(list, i) ==
    IF i = 1 THEN 0
    ELSE ClauseOffset(list, i - 1) + Len(ClauseOf(list[i - 1])) + 2

\* C7: for a reply with N forecast-day entries WeatherForecastTool._run
\* returns N clauses, one per entry in the reply's order, each followed by
\* ". " except the last, with nothing before the first and nothing after the
\* last; with N = 0 it returns the empty string.
C7_ForecastClauses ==
    (IsRun("WeatherForecastTool") /\ GotForecast
     /\ \A i \in 1..Len(Forecast) : ClauseMissing(Forecast[i]) = <<>>)
        => /\ outcome.kind = "return"
           /\ Len(Forecast) = 0 => outcome.value = <<>>
           /\ Len(Forecast) > 0 =>
                /\ Len(outcome.value) =
                     ClauseOffset(Forecast, Len(Forecast))
                     + Len(ClauseOf(Forecast[Len(Forecast)]))
                /\ \A i \in 1..Len(Forecast) :
                     OccursAt(outcome.value, ClauseOffset(Forecast, i),
                              ClauseOf(Forecast[i]))
                /\ \A i \in 1..(Len(Forecast) - 1) :
                     OccursAt(outcome.value,
                              ClauseOffset(Forecast, i) + Len(ClauseOf(Forecast[i])),
                              <<".", " ">>)

\* a reply with two different days, returned as two clauses
C7_Witness ==
    /\ IsRun("WeatherForecastTool") /\ GotForecast
    /\ Len(Forecast) = 2
    /\ \A i \in 1..2 : ClauseMissing(Forecast[i]) = <<>>
    /\ Forecast[1].date # Forecast[2].date
    /\ outcome.kind = "return"
    /\ Len(outcome.value) > Len(ClauseOf(Forecast[1])) + Len(ClauseOf(Forecast[2]))

\* the query parameter that carries each tool's key
KeyParam(t) ==
    CASE t = "WeatherTool" -> <<"k", "e", "y">>
      [] t = "WeatherForecastTool" -> <<"k", "e", "y">>
      [] t = "HotelTool" -> <<"a", "p", "i", "_", "k", "e", "y">>
      [] t = "CurrencyConverterTool" -> <<"a", "p", "i", "k", "e", "y">>

\* the step is a construction of tool t
Constructing(t) ==
    /\ call'.op = "__init__" /\ call'.tool = t
    /\ call' # call \/ outcome' # outcome \/ constructed' # constructed

\* the step is a call of _run
Running == call'.op = "_run" /\ <<call', sent', outcome'>> # <<call, sent, outcome>>

\* C8: constructing a tool while its variable is unset or empty raises
\* ValueError and yields no tool; otherwise the tool stores the value read.
\* Nothing but its construction sets a tool's key, and every _run sends the
\* key stored at construction, a non-empty one, whatever the environment
\* holds by then.
C8_KeyReadOnceAtConstruction ==
    [][/\ \A t \in Tools :
            /\ Constructing(t) =>
                 IF ~env[EnvVar(t)].set \/ env[EnvVar(t)].text = <<>>
                 THEN /\ outcome'.kind = "raise" /\ outcome'.exc = "ValueError"
                      /\ t \notin constructed'
                 ELSE /\ outcome'.kind = "return"
                      /\ t \in constructed'
                      /\ key'[t] = env[EnvVar(t)]
            /\ key'[t] # key[t] => Constructing(t)
            /\ t \in constructed' => (key'[t].set /\ key'[t].text # <<>>)
       /\ Running =>
            /\ Len(sent') = 1
            /\ QueryParam(sent'[1], KeyParam(call'.tool)).present
            /\ QueryParam(sent'[1], KeyParam(call'.tool)).value = key[call'.tool].text
      ]_vars

\* a tool called, with a result, after its variable was cleared
C8_Witness ==
    /\ IsRun("HotelTool")
    /\ ~env["SERP_API_KEY"].set
    /\ outcome.kind = "return"
    /\ QueryParam(sent[1], KeyParam("HotelTool")).value = ApiKey

\* C9: _arun of every tool, with any arguments, raises NotImplementedError
\* and issues no HTTP request.
C9_ArunUnsupported ==
    call.op = "_arun" =>
        /\ outcome.kind = "raise"
        /\ outcome.exc = "NotImplementedError"
        /\ sent = <<>>

C9_Witness ==
    /\ call.op = "_arun" /\ call.tool = "HotelTool" /\ call.args # <<>>
    /\ outcome.kind = "raise"

\* C10: every _run issues exactly one GET and ends in one outcome, a value
\* or an exception; it leaves every stored key as it was; a call whose
\* request fails raises and a call whose reply is good returns, whatever the
\* call before it did (no retry, no reuse of an earlier result).
C10_OneRequestOneOutcome ==
    [][Running =>
            /\ Len(sent') = 1
            /\ outcome'.kind \in {"return", "raise"}
            /\ key' = key
            /\ call'.resp.kind = "neterr" => outcome'.kind = "raise"
            /\ call'.resp.kind = "reply" => outcome'.kind = "return"
      ]_vars

\* a call whose request failed: one GET, one raised outcome
C10_Witness ==
    /\ IsRun("CurrencyConverterTool")
    /\ call.resp.kind = "neterr"
    /\ outcome.kind = "raise"
    /\ Len(sent) = 1

===========================================================================
